---- MODULE Spec2Model ----
(***************************************************************************)
(* A model of sunshine::details::workbranch (the worker pool), of the      *)
(* supervisor's scaling loop, of the taskQueue they share, and of the      *)
(* workspace that routes submissions to a list of branches.                *)
(*                                                                         *)
(* Granularity.  Every critical section of the branch mutex `lok` is one   *)
(* action, except the BLOCKING idle wait, whose predicate check and whose  *)
(* entry into task_cv.wait are two actions with `lok` held in between:     *)
(* submit() pushes and notifies without taking `lok`, so it can run there. *)
(* Every read the mission loop makes outside the lock (decline at lines    *)
(* 305 and 317, m_is_waiting at line 333) is an action of its own and      *)
(* yields the value the variable has at that moment; the interleaving of   *)
(* these reads with the locked writers gives every value such an           *)
(* unsynchronised read can return.                                         *)
(*                                                                         *)
(* A condition variable is the set of threads blocked on it: notify_one    *)
(* wakes any one of them, notify_all wakes all, a notification with nobody *)
(* blocked is lost, and a blocked thread may wake spuriously.  A woken     *)
(* thread re-acquires `lok` and re-evaluates its predicate.                *)
(***************************************************************************)
EXTENDS Integers, Sequences, FiniteSets, TLC

\* ------------------------------------------------------------------ bounds
\* Threads ever spawned by one branch (constructor, add_worker, supervisor).
MaxThreads == 2
\* Tasks ever submitted to the branch.
MaxTasks == 2
\* Members of a SEQUENCE group.
MaxSeqLen == 2
\* Client del_worker calls that do not throw.
MaxDels == 2
\* Outstanding retirement requests (the counter `decline`).
MaxDecline == 2
\* wait_tasks calls.
MaxWaits == 1
\* The balance strategy's spin limit (10000 in the source), scaled down.
max_spin_count == 1
\* The width of unsigned int (32 in the source), scaled down.
UIntBits == 16
\* supervisor's default tick period tout, in ms.
DefaultTick == 500
\* Branches a workspace is ever given.
MaxBranches == 3

Threads == 1..MaxThreads
TaskIds == 1..MaxTasks

\* The destructor's thread, as a waiter of thread_cv.
DtorThread == MaxThreads + 1

VARIABLES
  wait_strategy,            \* lowlatancy | balance | blocking
  workers,                  \* key set of the workers map
  tq,                       \* the task queue (front first)
  decline,
  task_done_workers,
  waiting_finished_worker,
  m_is_waiting,
  destructing,
  lok,                      \* 0, or the worker holding lok across two actions
  pc,                       \* each thread's position in mission()
  task,                     \* each worker's local `task` while it runs it
  spin_count,               \* each worker's local spin_count
  nextId,                   \* the id the next spawned thread gets
  pendingNotify,            \* submit calls between their push and their notify
  wt_pc,                    \* the wait_tasks caller's position
  wt_res,                   \* wait_tasks' local `res`
  wt_timed,                 \* this wait_tasks call has a finite timeout
  wt_calls,                 \* wait_tasks calls so far
  dtor_pc,                  \* the destructor's position
  \* history (read by no action's guard)
  nsub,                     \* tasks submitted so far; their ids are 1..nsub
  members,                  \* members[t]: the number of callables of task t
  finished,                 \* finished[t]: -1, or the members invoked when t ended
  preTasks,                 \* tasks queued or running when wait_tasks was called
  wt_busy,                  \* a worker was executing when wait_tasks was called
  popsAfter,                \* popsAfter[w]: tasks w popped after ~workbranch step 1
  initial,                  \* workers the constructor created
  kplus,                    \* add_worker calls after construction
  kminus,                   \* del_worker calls that did not throw
  started,                  \* the ids of the tasks popped so far, in pop order
  runner,                   \* runner[t]: the worker that popped task t, or 0
  threw,                    \* the tasks one of whose callables threw
  behind,                   \* behind[t]: the tasks in the queue when t was pushed
  classOf,                  \* classOf[t]: the class t was submitted as
  wksArg,                   \* the constructor's argument wks
  tracing,                  \* whether this run records the task history below
  delThrows,                \* del_worker calls that threw
  \* supervisor
  sup_pc, wmin, wmax, workNums, taskNums, toAdd, zeroTicks,
  m_stopping, m_tout, m_tval,
  wait_t,                   \* the duration the loop's current wait_for was given
  sdtor_pc,                 \* ~supervisor's position
  \* history of the supervisor
  stopSeen,                 \* the loop has read m_stopping = true
  dtorFound,                \* where ~supervisor found the loop
  preSuspend,               \* m_tout before the last suspend call
  ctlHist,                  \* the last calls of suspend and proceed
  tickAdds,                 \* add_worker calls of the current tick
  tickDels,                 \* del_worker calls of the current tick
  \* workspace
  m_branchList,             \* the owned branches, in list order
  cur,                      \* the cursor: the branch of the node it points at
  ntasks,                   \* ntasks[b]: the length of branch b's task queue
  ws_pc,                    \* workspace::submit's position
  this_br, next_br,         \* submit's locals, kept until the next submit
  numThis, numNext,         \* what the two num_tasks() calls returned
  \* history of the workspace
  wsLast,                   \* the last completed call: its name and argument
  wsPrev,                   \* the completed call before that one
  preList, preCur,          \* list and cursor when the last call began
  preAttach,                \* the list when the last attach began
  detachRes,                \* what the last detach returned
  placed,                   \* the branch the last submit enqueued on
  firsts                    \* submit's first choices since the last attach
                            \* or detach, the last |list| of them

branchVars == <<wait_strategy, workers, tq, decline, task_done_workers,
                waiting_finished_worker, m_is_waiting, destructing, lok, pc, task,
                spin_count, nextId, pendingNotify>>
waitVars == <<wt_pc, wt_res, wt_timed, wt_calls, preTasks, wt_busy>>
wsState == <<m_branchList, cur, ntasks, ws_pc, this_br, next_br, numThis,
             numNext>>
wsHist == <<wsLast, wsPrev, preList, preCur, preAttach, detachRes, placed,
            firsts>>
\* The workspace, which no action of a branch or of a supervisor touches.
wsVars == <<wsState, wsHist>>
taskHist == <<started, runner, threw, behind, classOf>>
\* What no action of a worker's loop writes apart from the history it
\* records: the history, the constructor's argument and the workspace.
histVars == <<nsub, members, finished, popsAfter, initial, kplus, kminus,
              taskHist, wksArg, tracing, wsVars, delThrows>>
supVars == <<sup_pc, wmin, wmax, workNums, taskNums, toAdd>>
\* State of the components a branch action never touches.
ctlVars == <<m_stopping, m_tout, m_tval, wait_t, sdtor_pc, stopSeen, dtorFound,
             preSuspend, ctlHist>>
tickVars == <<tickAdds, tickDels>>
envVars == <<supVars, ctlVars, tickVars>>
vars == <<branchVars, waitVars, histVars, dtor_pc, supVars, zeroTicks, ctlVars,
          tickVars>>

NoTask == [id |-> 0, cls |-> "none", n |-> 0, at |-> 0]

Min(a, b) == IF a < b THEN a ELSE b
Max(a, b) == IF a > b THEN a ELSE b

\* Mutant of CtorWorkers: the loop runs wks times, without the std::max.
CtorWorkersRaw(wks) == wks

\* workbranch(int wks, ...): std::max(wks, 1) calls of add_worker.
CtorWorkers(wks) == Max(wks, 1)

\* ------------------------------------------------------ condition variables
\* Mutant of WakeAllBlocked: the notify_all is forgotten.
WakeNoneBlocked(p) == p

\* task_cv.notify_all()
WakeAllBlocked(p) == [w \in Threads |-> IF p[w] = "blocked" THEN "blk_woken" ELSE p[w]]

\* task_cv.notify_one(): the position map after waking blocked worker w.
WakeBlocked(p, w) == [p EXCEPT ![w] = "blk_woken"]

Blocked == {w \in Threads : pc[w] = "blocked"}
Parked == {w \in Threads : pc[w] = "parked"}

\* thread_cv.notify_all(), as far as the workers go.
WakeAllParked(p) == [w \in Threads |-> IF p[w] = "parked" THEN "resume" ELSE p[w]]

\* task_done_cv.notify_one(): its only waiter is wait_tasks in phase 1.
NotifyTaskDone(c) == IF c = "p1_wait" THEN "p1_woken" ELSE c

\* waiting_finished.notify_one(): its only waiter is wait_tasks in phase 2.
NotifyFinished(c) == IF c = "p2_wait" THEN "p2_woken" ELSE c

\* The threads blocked on thread_cv: parked workers and the destructor.
ThreadCvWaiters ==
  Parked \cup (IF dtor_pc = "d_wait" THEN {DtorThread} ELSE {})

\* ------------------------------------------------------------- predicates
\* Mutant of MayPop: the worker pops whatever decline is.
MayPopAlways(d) == TRUE

\* mission(), line 305: `decline <= 0` lets the worker go on to try_pop.
MayPop(d) == d <= 0

\* The predicate of the BLOCKING idle wait (lines 363-365).
IdlePred == Len(tq) > 0 \/ m_is_waiting \/ destructing \/ decline > 0

\* Mutant of DtorPred: the destructor waits for one worker too few.
DtorPredOffByOne(d) == d <= 1

\* ~workbranch's wait predicate (line 75): `!decline`.
DtorPred(d) == d = 0

\* wait_tasks phase 1 predicate (line 125).
Phase1Pred == task_done_workers >= Cardinality(workers)

\* wait_tasks phase 2 predicate (line 136).
Phase2Pred(n) == n >= Cardinality(workers)

QueuedIds == {tq[i].id : i \in 1..Len(tq)}
RunningIds == {task[w].id : w \in Threads} \ {0}
Pending == QueuedIds \cup RunningIds

Alive == {w \in Threads : pc[w] \notin {"unborn", "dead"}}

\* Worker w is inside tq.getLength() (taskqueue.h lines 40-43) and holds the
\* queue's mutex tqLock.  Every other operation of the queue is one step,
\* which takes tqLock and releases it.
TqLockedBy(w) == pc[w] = "blk_len_held"
TqFree == \A w \in Threads : ~TqLockedBy(w)
Spawned == 1..(nextId - 1)

\* -------------------------------------------------------------------- Init
Strategies == {"lowlatancy", "balance", "blocking"}

\* The state after workbranch(wks, strategy) for the given argument sets.
BranchInit(wksSet, strategySet) ==
  /\ wait_strategy \in strategySet
  /\ wksArg \in wksSet
  /\ initial = CtorWorkers(wksArg)
  /\ workers = 1..initial
  /\ nextId = initial + 1
  /\ pc = [w \in Threads |-> IF w <= initial THEN "top" ELSE "unborn"]
  /\ task = [w \in Threads |-> NoTask]
  /\ spin_count = [w \in Threads |-> 0]
  /\ tq = <<>>
  /\ decline = 0
  /\ task_done_workers = 0
  /\ waiting_finished_worker = 0
  /\ m_is_waiting = FALSE
  /\ destructing = FALSE
  /\ lok = 0
  /\ pendingNotify = 0
  /\ wt_pc = "idle" /\ wt_res = FALSE /\ wt_timed = FALSE /\ wt_calls = 0
  /\ preTasks = {} /\ wt_busy = FALSE
  /\ dtor_pc = "idle"
  /\ nsub = 0
  /\ members = [t \in TaskIds |-> 0]
  /\ finished = [t \in TaskIds |-> -1]
  /\ popsAfter = [w \in Threads |-> 0]
  /\ kplus = 0 /\ kminus = 0 /\ delThrows = 0
  /\ started = <<>>
  /\ runner = [t \in TaskIds |-> 0]
  /\ threw = {}
  /\ behind = [t \in TaskIds |-> {}]
  /\ classOf = [t \in TaskIds |-> "none"]

\* An int converted to unsigned int.
ToUnsigned(x) == x % (2 ^ UIntBits)

\* suspend's default argument, `unsigned int t = -1`.
Infinite == ToUnsigned(-1)

\* supervisor(wmin, wmax, tout = 500, ...): the member initialisers.
SupCtor ==
  /\ m_stopping = FALSE
  /\ m_tout = DefaultTick /\ m_tval = DefaultTick
  /\ wait_t = 0
  /\ sdtor_pc = "idle"
  /\ stopSeen = FALSE /\ dtorFound = "none"
  /\ preSuspend = DefaultTick /\ ctlHist = "none"
  /\ tickAdds = 0 /\ tickDels = 0
  /\ workNums = 0 /\ taskNums = 0 /\ toAdd = 0 /\ zeroTicks = 0

Branches == 1..MaxBranches

\* m_branchList.end(), as a value of the cursor.
End == 0

\* A value-initialised list iterator (`pos_t cur = {}`, workspace.h line
\* 281): it points at no node of any list and is not end().
Singular == -1

\* The result of a num_tasks() call that has not been made yet.
Unread == -1

\* No call, as an entry of the workspace's history.
NoCall == [op |-> "none", arg |-> 0]

\* workspace(): an empty list, an empty map and the cursor's initialiser.
WsCtor ==
  /\ m_branchList = <<>>
  /\ cur = Singular
  /\ ntasks = [b \in Branches |-> 0]
  /\ ws_pc = "idle"
  /\ this_br = 0 /\ next_br = 0
  /\ numThis = Unread /\ numNext = Unread
  /\ wsLast = NoCall /\ wsPrev = NoCall
  /\ preList = <<>> /\ preCur = Singular /\ preAttach = <<>>
  /\ detachRes = 0 /\ placed = 0
  /\ firsts = <<>>

\* No supervisor is attached.
SupOff ==
  /\ sup_pc = "off" /\ wmin = 0 /\ wmax = 1
  /\ SupCtor

\* A branch constructed with wks >= 1; the arguments below 1, which the
\* constructor raises to 1, are InitCtor's.
Init == BranchInit(1..2, Strategies) /\ SupOff /\ WsCtor /\ tracing = FALSE

\* The same branch, in a run that records which task was popped when, by
\* whom, and which threw.
InitTraced ==
  BranchInit(1..2, Strategies) /\ SupOff /\ WsCtor /\ tracing = TRUE

\* workbranch(wks, strategy) for every sign of wks.
InitCtor ==
  BranchInit(-1..2, Strategies) /\ SupOff /\ WsCtor /\ tracing = FALSE

\* A branch whose idle workers poll.
InitPolling ==
  BranchInit(1..2, {"lowlatancy", "balance"}) /\ SupOff /\ WsCtor
    /\ tracing = FALSE

\* A BLOCKING branch.
InitLock ==
  BranchInit(1..2, {"blocking"}) /\ SupOff /\ WsCtor /\ tracing = FALSE

\* An empty workspace next to one idle branch.
InitWs ==
  BranchInit({1}, {"lowlatancy"}) /\ SupOff /\ WsCtor /\ tracing = FALSE

\* ------------------------------------------------------- mission(): a worker
\* Everything of the branch but pc.
noPc == <<wait_strategy, workers, tq, decline, task_done_workers,
          waiting_finished_worker, m_is_waiting, destructing, lok, task,
          spin_count, nextId, pendingNotify>>
others == <<waitVars, histVars, dtor_pc, envVars, zeroTicks>>

\* Line 305, first operand: the unlocked read of decline.
Top(w) ==
  /\ pc[w] = "top"
  /\ pc' = [pc EXCEPT ![w] = IF MayPop(decline) THEN "pop" ELSE "chk2"]
  /\ UNCHANGED <<noPc, others>>

\* Mutant of TryPop: try_pop copies the front task and leaves it in the
\* queue.
TryPopLeavesTask(w) ==
  /\ pc[w] = "pop"
  /\ TqFree
  /\ IF Len(tq) > 0
       THEN /\ task' = [task EXCEPT ![w] = [Head(tq) EXCEPT !.at = 0]]
            /\ pc' = [pc EXCEPT ![w] = "exec"]
            /\ popsAfter' = [popsAfter EXCEPT ![w] =
                               IF destructing THEN Min(@ + 1, 2) ELSE @]
            /\ started' = IF tracing THEN Append(started, Head(tq).id)
                                     ELSE started
            /\ runner' = IF tracing THEN [runner EXCEPT ![Head(tq).id] = w]
                                    ELSE runner
       ELSE /\ pc' = [pc EXCEPT ![w] = "chk2"]
            /\ UNCHANGED <<task, popsAfter, started, runner>>
  /\ UNCHANGED <<wait_strategy, workers, tq, decline, task_done_workers,
                 waiting_finished_worker, m_is_waiting, destructing, lok,
                 spin_count, nextId, pendingNotify>>
  /\ UNCHANGED <<waitVars, nsub, members, finished, initial, kplus, kminus,
                 threw, behind, classOf, wksArg, tracing, wsVars, delThrows, dtor_pc, envVars,
                 zeroTicks>>

\* Line 305, second operand: tq.try_pop(task).
TryPop(w) ==
  /\ pc[w] = "pop"
  /\ TqFree
  /\ IF Len(tq) > 0
       THEN /\ task' = [task EXCEPT ![w] = [Head(tq) EXCEPT !.at = 0]]
            /\ tq' = Tail(tq)
            /\ pc' = [pc EXCEPT ![w] = "exec"]
            /\ popsAfter' = [popsAfter EXCEPT ![w] =
                               IF destructing THEN Min(@ + 1, 2) ELSE @]
            /\ started' = IF tracing THEN Append(started, Head(tq).id)
                                     ELSE started
            /\ runner' = IF tracing THEN [runner EXCEPT ![Head(tq).id] = w]
                                    ELSE runner
       ELSE /\ pc' = [pc EXCEPT ![w] = "chk2"]
            /\ UNCHANGED <<task, tq, popsAfter, started, runner>>
  /\ UNCHANGED <<wait_strategy, workers, decline, task_done_workers,
                 waiting_finished_worker, m_is_waiting, destructing, lok,
                 spin_count, nextId, pendingNotify>>
  /\ UNCHANGED <<waitVars, nsub, members, finished, initial, kplus, kminus,
                 threw, behind, classOf, wksArg, tracing, wsVars, delThrows, dtor_pc, envVars,
                 zeroTicks>>

\* The closure submit<sequence> pushes (lines 206-221) runs its callables
\* through rexec inside ONE try block: the group ends after member i when
\* that was the last one or when it threw.  A normal or urgent task is a
\* group of one.
GroupEnds(t, i, throws) == throws \/ i = t.n

\* Mutant of AfterTask: the closure has no try/catch, so that a callable's
\* exception leaves mission() and ends the thread.
AfterTaskUncaught(throws) == IF throws THEN "dead" ELSE "top"

\* Where the worker goes when its task has ended.  An exception of the
\* callable is caught inside the submitted closure (lines 163-173), and
\* mission() has a catch of its own (lines 308-313): either way the worker
\* reaches line 314 and loops.
AfterTask(throws) == "top"

\* Lines 306-314: task() runs its next callable, which returns or throws.
Exec(w) ==
  /\ pc[w] = "exec"
  /\ \E throws \in BOOLEAN :
       LET t == task[w]
           i == t.at + 1
       IN /\ threw' = IF tracing /\ throws THEN threw \cup {t.id} ELSE threw
          /\ IF GroupEnds(t, i, throws)
               THEN /\ finished' = [finished EXCEPT ![t.id] = i]
                    /\ task' = [task EXCEPT ![w] = NoTask]
                    /\ spin_count' = [spin_count EXCEPT ![w] = 0]
                    /\ pc' = [pc EXCEPT ![w] = AfterTask(throws)]
               ELSE /\ task' = [task EXCEPT ![w].at = i]
                    /\ UNCHANGED <<finished, spin_count, pc>>
  /\ UNCHANGED <<wait_strategy, workers, tq, decline, task_done_workers,
                 waiting_finished_worker, m_is_waiting, destructing, lok,
                 nextId, pendingNotify>>
  /\ UNCHANGED <<waitVars, nsub, members, popsAfter, initial, kplus, kminus,
                 started, runner, behind, classOf, wksArg, tracing, wsVars, delThrows, dtor_pc,
                 envVars, zeroTicks>>

\* Line 317: the second unlocked read of decline.
Chk2(w) ==
  /\ pc[w] = "chk2"
  /\ pc' = [pc EXCEPT ![w] = IF decline > 0 THEN "retire" ELSE "chkw"]
  /\ UNCHANGED <<noPc, others>>

\* thread_cv.notify_one() by a retiring worker: any one waiter, if there is one.
\* x is the waiter chosen, or -1 when nobody waits.
NotifyThreadCvChoices == IF ThreadCvWaiters = {} THEN {-1} ELSE ThreadCvWaiters

\* Mutant of Retire: `if (decline > 0) decline--;` and then the exit
\* whatever the re-check found, so that two workers that both read
\* decline > 0 outside the lock retire against one request.
RetireWithoutRecheck(w) ==
  /\ pc[w] = "retire"
  /\ lok = 0
  /\ decline' = Max(decline - 1, 0)
  /\ workers' = workers \ {w}
  /\ wt_pc' = IF m_is_waiting THEN NotifyTaskDone(wt_pc) ELSE wt_pc
  /\ \E x \in (IF destructing THEN NotifyThreadCvChoices ELSE {-1}) :
       /\ pc' = [pc EXCEPT ![w] = "dead",
                           ![IF x \in Threads THEN x ELSE w] =
                             IF x \in Threads THEN "resume" ELSE "dead"]
       /\ dtor_pc' = IF x = DtorThread THEN "d_woken" ELSE dtor_pc
  /\ UNCHANGED <<wait_strategy, tq, task_done_workers, waiting_finished_worker,
                 m_is_waiting, destructing, lok, task, spin_count, nextId,
                 pendingNotify>>
  /\ UNCHANGED <<wt_res, wt_timed, wt_calls, preTasks, wt_busy, histVars,
                 envVars, zeroTicks>>

\* Lines 318-329: under lok, the re-check of decline and the retirement.
Retire(w) ==
  /\ pc[w] = "retire"
  /\ lok = 0
  /\ IF decline > 0
       THEN /\ decline' = decline - 1
            /\ workers' = workers \ {w}
            /\ wt_pc' = IF m_is_waiting THEN NotifyTaskDone(wt_pc) ELSE wt_pc
            /\ \E x \in (IF destructing THEN NotifyThreadCvChoices ELSE {-1}) :
                 /\ pc' = [pc EXCEPT ![w] = "dead",
                                     ![IF x \in Threads THEN x ELSE w] =
                                       IF x \in Threads THEN "resume" ELSE "dead"]
                 /\ dtor_pc' = IF x = DtorThread THEN "d_woken" ELSE dtor_pc
       ELSE /\ pc' = [pc EXCEPT ![w] = "top"]
            /\ UNCHANGED <<decline, workers, wt_pc, dtor_pc>>
  /\ UNCHANGED <<wait_strategy, tq, task_done_workers, waiting_finished_worker,
                 m_is_waiting, destructing, lok, task, spin_count, nextId,
                 pendingNotify>>
  /\ UNCHANGED <<wt_res, wt_timed, wt_calls, preTasks, wt_busy, histVars,
                 envVars, zeroTicks>>

\* Lines 333 and 345-367: the unlocked read of m_is_waiting and, when it is
\* false, one round of the wait strategy (yield, or spin then sleep, or go
\* and take lok for the blocking wait).
ChkWaiting(w) ==
  /\ pc[w] = "chkw"
  /\ IF m_is_waiting
       THEN /\ pc' = [pc EXCEPT ![w] = "report"]
            /\ UNCHANGED spin_count
       ELSE /\ pc' = [pc EXCEPT ![w] =
                        IF wait_strategy = "blocking" THEN "blkchk" ELSE "top"]
            /\ spin_count' = [spin_count EXCEPT ![w] =
                                IF wait_strategy = "balance" /\ @ < max_spin_count
                                  THEN @ + 1 ELSE @]
  /\ UNCHANGED <<wait_strategy, workers, tq, decline, task_done_workers,
                 waiting_finished_worker, m_is_waiting, destructing, lok, task,
                 nextId, pendingNotify>>
  /\ UNCHANGED others

\* Lines 341-342, under lok: report "resumed".
Resumed(w) ==
  /\ waiting_finished_worker' = waiting_finished_worker + 1
  /\ pc' = [pc EXCEPT ![w] = "top"]

\* Lines 335-342: report idle under lok, then wait on thread_cv for
\* !m_is_waiting; the wait returns at once when the flag is already clear.
Report(w) ==
  /\ pc[w] = "report"
  /\ lok = 0
  /\ task_done_workers' = task_done_workers + 1
  /\ IF ~m_is_waiting
       THEN /\ Resumed(w)
            /\ wt_pc' = IF Phase2Pred(waiting_finished_worker')
                          THEN NotifyFinished(NotifyTaskDone(wt_pc))
                          ELSE NotifyTaskDone(wt_pc)
       ELSE /\ pc' = [pc EXCEPT ![w] = "parked"]
            /\ wt_pc' = NotifyTaskDone(wt_pc)
            /\ UNCHANGED waiting_finished_worker
  /\ UNCHANGED <<wait_strategy, workers, tq, decline, m_is_waiting, destructing,
                 lok, task, spin_count, nextId, pendingNotify>>
  /\ UNCHANGED <<wt_res, wt_timed, wt_calls, preTasks, wt_busy, histVars,
                 dtor_pc, envVars, zeroTicks>>

\* Mutant of ResumePred: thread_cv.wait(locker) without its predicate, so
\* that any wake-up resumes the worker.
ResumeOnAnyWake == TRUE

\* The predicate of the wait at line 339: `!m_is_waiting`.
ResumePred == ~m_is_waiting

\* Line 339, after a wake-up: re-acquire lok and re-evaluate the predicate.
Resume(w) ==
  /\ pc[w] = "resume"
  /\ lok = 0
  /\ IF ResumePred
       THEN /\ Resumed(w)
            /\ wt_pc' = IF Phase2Pred(waiting_finished_worker')
                          THEN NotifyFinished(wt_pc) ELSE wt_pc
       ELSE /\ pc' = [pc EXCEPT ![w] = "parked"]
            /\ UNCHANGED <<waiting_finished_worker, wt_pc>>
  /\ UNCHANGED <<wait_strategy, workers, tq, decline, task_done_workers,
                 m_is_waiting, destructing, lok, task, spin_count, nextId,
                 pendingNotify>>
  /\ UNCHANGED <<wt_res, wt_timed, wt_calls, preTasks, wt_busy, histVars,
                 dtor_pc, envVars, zeroTicks>>

\* Lines 361-365: take lok and evaluate the idle predicate (on entry, and
\* again after every wake-up).  False: the worker goes on into wait() with
\* lok still held.
BlkCheck(w) ==
  /\ pc[w] \in {"blkchk", "blk_woken"}
  /\ lok = 0
  /\ IF IdlePred
       THEN /\ pc' = [pc EXCEPT ![w] = "top"]
            /\ UNCHANGED lok
       ELSE /\ pc' = [pc EXCEPT ![w] = "blk_enter"]
            /\ lok' = w
  /\ UNCHANGED <<wait_strategy, workers, tq, decline, task_done_workers,
                 waiting_finished_worker, m_is_waiting, destructing, task,
                 spin_count, nextId, pendingNotify>>
  /\ UNCHANGED others

\* task_cv.wait: release lok and block, atomically.
BlkEnter(w) ==
  /\ pc[w] = "blk_enter"
  /\ lok = w
  /\ lok' = 0
  /\ pc' = [pc EXCEPT ![w] = "blocked"]
  /\ UNCHANGED <<wait_strategy, workers, tq, decline, task_done_workers,
                 waiting_finished_worker, m_is_waiting, destructing, task,
                 spin_count, nextId, pendingNotify>>
  /\ UNCHANGED others

\* The same wait with its locks one by one.  Line 361, and line 363 after a
\* wake-up: take lok.
BlkLock(w) ==
  /\ pc[w] \in {"blkchk", "blk_woken"}
  /\ lok = 0
  /\ lok' = w
  /\ pc' = [pc EXCEPT ![w] = "blk_len"]
  /\ UNCHANGED <<wait_strategy, workers, tq, decline, task_done_workers,
                 waiting_finished_worker, m_is_waiting, destructing, task,
                 spin_count, nextId, pendingNotify>>
  /\ UNCHANGED others

\* Line 364, first operand: tq.getLength() takes tqLock (taskqueue.h line
\* 41) in the thread that called it, which evaluates the predicate with lok
\* held.
BlkLenLock(w) ==
  /\ pc[w] = "blk_len"
  /\ TqFree
  /\ pc' = [pc EXCEPT ![w] = "blk_len_held"]
  /\ UNCHANGED <<noPc, others>>

\* Lines 364-365: getLength() returns the length and releases tqLock, and
\* the predicate has its value.  True: the wait returns and lok is released
\* at the end of the case.  False: the worker goes on into wait().
BlkLenRead(w) ==
  /\ pc[w] = "blk_len_held"
  /\ lok = w
  /\ IF IdlePred
       THEN /\ pc' = [pc EXCEPT ![w] = "top"]
            /\ lok' = 0
       ELSE /\ pc' = [pc EXCEPT ![w] = "blk_enter"]
            /\ UNCHANGED lok
  /\ UNCHANGED <<wait_strategy, workers, tq, decline, task_done_workers,
                 waiting_finished_worker, m_is_waiting, destructing, task,
                 spin_count, nextId, pendingNotify>>
  /\ UNCHANGED others

\* A spurious wake-up of a worker blocked on task_cv or on thread_cv.
SpuriousWake(w) ==
  /\ pc[w] \in {"blocked", "parked"}
  /\ pc' = [pc EXCEPT ![w] = IF pc[w] = "blocked" THEN "blk_woken" ELSE "resume"]
  /\ UNCHANGED <<noPc, others>>

\* One step of worker w's loop, apart from retirement and the barrier.
Mission(w) ==
  \/ Top(w) \/ TryPop(w) \/ Exec(w) \/ Chk2(w) \/ ChkWaiting(w)
  \/ BlkCheck(w) \/ BlkEnter(w)

\* Worker w's loop while it finds nothing to run: the reads of lines 305,
\* 317 and 333 and the non-blocking strategies' round.
Poll(w) == Top(w) \/ TryPop(w) \/ Chk2(w) \/ ChkWaiting(w)

\* Worker w's BLOCKING idle wait.
Block(w) == BlkCheck(w) \/ BlkEnter(w)

\* Worker w's BLOCKING idle wait, lock by lock.
BlockByLock(w) == BlkLock(w) \/ BlkLenLock(w) \/ BlkLenRead(w) \/ BlkEnter(w)

\* Worker w's part in wait_tasks.
Quiesce(w) == Report(w) \/ Resume(w)

\* ------------------------------------------------------------ the clients
\* No client operation starts once ~workbranch has begun.
Live == dtor_pc = "idle"

\* Mutant of Push: every class is pushed at the head.
PushFrontOnly(q, t, cls) == <<t>> \o q

\* Mutant of Push: every class is pushed at the tail.
PushBackOnly(q, t, cls) == Append(q, t)

\* taskQueue::push_back / push_front (taskqueue.h lines 10-28).
Push(q, t, cls) == IF cls = "urgent" THEN <<t>> \o q ELSE Append(q, t)

\* submit<normal|urgent|sequence>, up to its push: the task is enqueued under
\* the queue's own mutex; under BLOCKING the notify_one is still to come.
Submit(cls, n) ==
  /\ Live
  /\ nsub < MaxTasks
  /\ TqFree
  /\ nsub' = nsub + 1
  /\ tq' = Push(tq, [id |-> nsub + 1, cls |-> cls, n |-> n, at |-> 0], cls)
  /\ members' = [members EXCEPT ![nsub + 1] = n]
  /\ behind' = IF tracing THEN [behind EXCEPT ![nsub + 1] = QueuedIds]
                          ELSE behind
  /\ classOf' = IF tracing THEN [classOf EXCEPT ![nsub + 1] = cls]
                           ELSE classOf
  /\ pendingNotify' = IF wait_strategy = "blocking"
                        THEN pendingNotify + 1 ELSE pendingNotify
  /\ zeroTicks' = 0
  /\ UNCHANGED <<wait_strategy, workers, decline, task_done_workers,
                 waiting_finished_worker, m_is_waiting, destructing, lok, pc,
                 task, spin_count, nextId>>
  /\ UNCHANGED <<waitVars, finished, popsAfter, initial, kplus, kminus,
                 started, runner, threw, wksArg, tracing, wsVars, delThrows, dtor_pc, envVars>>

\* submit's last line: task_cv.notify_one(), without lok.
SubmitNotify ==
  /\ pendingNotify > 0
  /\ pendingNotify' = pendingNotify - 1
  /\ \E x \in (IF Blocked = {} THEN {0} ELSE Blocked) :
       pc' = IF x = 0 THEN pc ELSE WakeBlocked(pc, x)
  /\ UNCHANGED <<wait_strategy, workers, tq, decline, task_done_workers,
                 waiting_finished_worker, m_is_waiting, destructing, lok, task,
                 spin_count, nextId>>
  /\ UNCHANGED others

\* add_worker (lines 83-87) on the branch: a new thread, registered under lok.
Spawn ==
  /\ lok = 0
  /\ nextId <= MaxThreads
  /\ workers' = workers \cup {nextId}
  /\ pc' = [pc EXCEPT ![nextId] = "top"]
  /\ nextId' = nextId + 1
  /\ kplus' = kplus + 1

\* del_worker (lines 94-104) on a branch that has workers.
Decline ==
  /\ lok = 0
  /\ workers # {}
  /\ decline < MaxDecline
  /\ decline' = decline + 1
  /\ kminus' = kminus + 1
  /\ \E x \in (IF wait_strategy = "blocking" /\ Blocked # {} THEN Blocked ELSE {0}) :
       pc' = IF x = 0 THEN pc ELSE WakeBlocked(pc, x)

\* A client's add_worker().
AddWorker ==
  /\ Live
  /\ Spawn
  /\ UNCHANGED <<wait_strategy, tq, decline, task_done_workers,
                 waiting_finished_worker, m_is_waiting, destructing, lok, task,
                 spin_count, pendingNotify>>
  /\ UNCHANGED <<waitVars, nsub, members, finished, popsAfter, initial, kminus,
                 taskHist, wksArg, tracing, wsVars, delThrows,
                 dtor_pc, envVars, zeroTicks>>

\* A client's del_worker() that does not throw.
DelWorker ==
  /\ Live
  /\ kminus < MaxDels
  /\ Decline
  /\ UNCHANGED <<wait_strategy, workers, tq, task_done_workers,
                 waiting_finished_worker, m_is_waiting, destructing, lok, task,
                 spin_count, nextId, pendingNotify>>
  /\ UNCHANGED <<waitVars, nsub, members, finished, popsAfter, initial, kplus,
                 taskHist, wksArg, tracing, wsVars, delThrows,
                 dtor_pc, envVars, zeroTicks>>

\* Mutant of DelWorkerThrows: del_worker without its check of
\* workers.empty(): the request is counted although nobody can serve it.
DelWorkerUnchecked ==
  /\ Live
  /\ lok = 0
  /\ workers = {}
  /\ delThrows < MaxDels
  /\ delThrows' = delThrows + 1
  /\ decline' = decline + 1
  /\ UNCHANGED <<wait_strategy, workers, tq, task_done_workers,
                 waiting_finished_worker, m_is_waiting, destructing, lok, pc,
                 task, spin_count, nextId, pendingNotify>>
  /\ UNCHANGED <<waitVars, nsub, members, finished, popsAfter, initial, kplus,
                 kminus, taskHist, wksArg, tracing, wsVars, dtor_pc, envVars, zeroTicks>>

\* A client's del_worker() on a branch whose workers map is empty (lines
\* 95-97): it takes lok and throws std::runtime_error.
DelWorkerThrows ==
  /\ Live
  /\ lok = 0
  /\ workers = {}
  /\ delThrows < MaxDels
  /\ delThrows' = delThrows + 1
  /\ UNCHANGED branchVars
  /\ UNCHANGED <<waitVars, nsub, members, finished, popsAfter, initial, kplus,
                 kminus, taskHist, wksArg, tracing, wsVars, dtor_pc, envVars, zeroTicks>>

\* ------------------------------------------------------------- wait_tasks
\* Lines 128-129 and the unlock: phase 1 ends with result r.
EndPhase1(r) ==
  /\ wt_res' = r
  /\ task_done_workers' = 0
  /\ m_is_waiting' = FALSE
  /\ wt_pc' = "p1_done"

\* Lines 120-126: under lok set m_is_waiting, wake the blocked workers, and
\* evaluate the phase 1 predicate; false: block on task_done_cv.
WaitTasksBegin(timed) ==
  /\ Live
  /\ wt_pc = "idle"
  /\ wt_calls < MaxWaits
  /\ lok = 0
  /\ wt_calls' = wt_calls + 1
  /\ wt_timed' = timed
  /\ preTasks' = Pending
  /\ wt_busy' = (\E w \in Threads : pc[w] = "exec")
  /\ pc' = IF wait_strategy = "blocking" THEN WakeAllBlocked(pc) ELSE pc
  /\ IF Phase1Pred
       THEN EndPhase1(TRUE)
       ELSE /\ m_is_waiting' = TRUE
            /\ wt_pc' = "p1_wait"
            /\ UNCHANGED <<wt_res, task_done_workers>>
  /\ UNCHANGED <<wait_strategy, workers, tq, decline, waiting_finished_worker,
                 destructing, lok, task, spin_count, nextId, pendingNotify>>
  /\ UNCHANGED <<histVars, dtor_pc, envVars, zeroTicks>>

\* What a wait_tasks step leaves alone besides the variables it names.
waitFrame == <<wait_strategy, workers, tq, decline, destructing, lok, task,
               spin_count, nextId, pendingNotify, wt_timed, wt_calls, preTasks,
               wt_busy, histVars, dtor_pc, envVars, zeroTicks>>

\* Line 124 after a wake-up: re-acquire lok, re-evaluate the predicate.
Phase1Recheck ==
  /\ wt_pc = "p1_woken"
  /\ lok = 0
  /\ IF Phase1Pred
       THEN EndPhase1(TRUE)
       ELSE /\ wt_pc' = "p1_wait"
            /\ UNCHANGED <<wt_res, task_done_workers, m_is_waiting>>
  /\ UNCHANGED <<pc, waiting_finished_worker, waitFrame>>

\* Line 124, the timeout of wait_for: it returns the predicate's value.
Phase1Timeout ==
  /\ wt_pc \in {"p1_wait", "p1_woken"}
  /\ wt_timed
  /\ lok = 0
  /\ EndPhase1(Phase1Pred)
  /\ UNCHANGED <<pc, waiting_finished_worker, waitFrame>>

\* Line 132: thread_cv.notify_all(), outside lok.
Phase2Notify ==
  /\ wt_pc = "p1_done"
  /\ pc' = WakeAllParked(pc)
  /\ wt_pc' = "p2_lock"
  /\ UNCHANGED <<wt_res, task_done_workers, m_is_waiting,
                 waiting_finished_worker, waitFrame>>

\* Lines 135-138: under lok evaluate the phase 2 predicate (on entry and
\* after every wake-up); true: reset the count and return res.
Phase2Check ==
  /\ wt_pc \in {"p2_lock", "p2_woken"}
  /\ lok = 0
  /\ IF Phase2Pred(waiting_finished_worker)
       THEN /\ waiting_finished_worker' = 0
            /\ wt_pc' = "idle"
       ELSE /\ wt_pc' = "p2_wait"
            /\ UNCHANGED waiting_finished_worker
  /\ UNCHANGED <<pc, wt_res, task_done_workers, m_is_waiting, waitFrame>>

\* A spurious wake-up of the wait_tasks caller.
WaitSpurious ==
  /\ wt_pc \in {"p1_wait", "p2_wait"}
  /\ wt_pc' = IF wt_pc = "p1_wait" THEN "p1_woken" ELSE "p2_woken"
  /\ UNCHANGED <<pc, wt_res, task_done_workers, m_is_waiting,
                 waiting_finished_worker, waitFrame>>

\* ------------------------------------------------------------ ~workbranch
dtorFrame == <<wait_strategy, workers, tq, task_done_workers,
               waiting_finished_worker, m_is_waiting, lok, task, spin_count,
               nextId, pendingNotify, waitVars, histVars, envVars, zeroTicks>>

\* Lines 70-75 (step 1): under lok, decline = workers.size(), destructing,
\* wake the blocked workers, then wait on thread_cv for decline to reach 0.
\* The destructor runs when no other call on the branch is in progress.
DtorBegin ==
  /\ dtor_pc = "idle"
  /\ wt_pc = "idle"
  /\ pendingNotify = 0
  /\ sup_pc = "off"
  /\ lok = 0
  /\ decline' = Cardinality(workers)
  /\ destructing' = TRUE
  /\ pc' = IF wait_strategy = "blocking" THEN WakeAllBlocked(pc) ELSE pc
  /\ dtor_pc' = IF DtorPred(decline') THEN "done" ELSE "d_wait"
  /\ UNCHANGED dtorFrame

\* Line 75 after a wake-up: re-acquire lok, re-evaluate the predicate.
DtorRecheck ==
  /\ dtor_pc = "d_woken"
  /\ lok = 0
  /\ dtor_pc' = IF DtorPred(decline) THEN "done" ELSE "d_wait"
  /\ UNCHANGED <<decline, destructing, pc, dtorFrame>>

\* A spurious wake-up of the destructor.
DtorSpurious ==
  /\ dtor_pc = "d_wait"
  /\ dtor_pc' = "d_woken"
  /\ UNCHANGED <<decline, destructing, pc, dtorFrame>>

\* ------------------------------------------------- supervisor::mission()
\* The loop thread holds m_SupLock from line 120 to the wait of line 154
\* (or to the end of the block): the other positions leave it free.
SupLockFree == sup_pc \in {"head", "loop", "wait", "cb", "exited"}

\* Mutant of WakeLoop: the notify_one is forgotten.
WakeLoopLost(p) == p

\* m_thrdCv.notify_one(): the loop thread, if it is inside wait_for, returns
\* from it (wait_for has no predicate).
WakeLoop(p) == IF p = "wait" THEN "cb" ELSE p

\* Line 117: `while (!m_stopping)`, read without the lock.
SupHead ==
  /\ sup_pc = "head"
  /\ sup_pc' = IF m_stopping THEN "exited" ELSE "loop"
  /\ stopSeen' = (stopSeen \/ m_stopping)
  /\ UNCHANGED <<wmin, wmax, workNums, taskNums, toAdd, zeroTicks, tickVars>>
  /\ UNCHANGED <<m_stopping, m_tout, m_tval, wait_t, sdtor_pc, dtorFound,
                 preSuspend, ctlHist>>
  /\ UNCHANGED <<branchVars, waitVars, histVars, dtor_pc>>

\* Mutant of NumsToAdd: the backlog alone, without the cap of wmax.
NumsToAddUncapped(tasks, wnum) == IF tasks > wnum THEN tasks - wnum ELSE 0

\* Lines 136-139: the workers one scaling pass adds.
NumsToAdd(tasks, wnum) ==
  Min(wmax - wnum, IF tasks > wnum THEN tasks - wnum ELSE 0)

\* Mutant of SupDecision: scale down whenever the queue is empty, whatever
\* wmin is.
SupDecisionNoFloor(tasks, wnum) ==
  IF tasks > 0
    THEN IF wnum <= wmax THEN "scale" ELSE "abort"
    ELSE "del"

\* Lines 129-148: what the pass does for a branch seen with wnum workers
\* and tasks tasks.  The assert of line 130 aborts the process.
SupDecision(tasks, wnum) ==
  IF tasks > 0
    THEN IF wnum <= wmax THEN "scale" ELSE "abort"
    ELSE IF wnum > wmin THEN "del" ELSE "sleep"

\* Lines 120-125: take m_SupLock, then ptr->num_workers(), under the
\* branch's lok.  A tick begins.
SupReadWorkers ==
  /\ sup_pc = "loop"
  /\ lok = 0
  /\ workNums' = Cardinality(workers)
  /\ sup_pc' = "readT"
  /\ tickAdds' = 0 /\ tickDels' = 0
  /\ UNCHANGED <<wmin, wmax, taskNums, toAdd, zeroTicks, ctlVars>>
  /\ UNCHANGED <<branchVars, waitVars, histVars, dtor_pc>>

\* Lines 126-146: ptr->num_tasks() and the decision.
SupReadTasks ==
  /\ sup_pc = "readT"
  /\ TqFree
  /\ taskNums' = Len(tq)
  /\ sup_pc' = SupDecision(taskNums', workNums)
  /\ toAdd' = IF sup_pc' = "scale" THEN NumsToAdd(taskNums', workNums) ELSE 0
  /\ zeroTicks' = IF taskNums' = 0 THEN Min(zeroTicks + 1, 2) ELSE 0
  /\ UNCHANGED <<wmin, wmax, workNums, ctlVars, tickVars>>
  /\ UNCHANGED <<branchVars, waitVars, histVars, dtor_pc>>

\* Lines 141-143: one add_worker of the scale-up loop, or the loop's end.
SupAdd ==
  /\ sup_pc = "scale"
  /\ IF toAdd > 0
       THEN /\ Spawn
            /\ toAdd' = toAdd - 1
            /\ tickAdds' = tickAdds + 1
            /\ UNCHANGED sup_pc
       ELSE /\ sup_pc' = "sleep"
            /\ UNCHANGED <<workers, pc, nextId, kplus, toAdd, tickAdds>>
  /\ UNCHANGED <<wmin, wmax, workNums, taskNums, zeroTicks, ctlVars, tickDels>>
  /\ UNCHANGED <<wait_strategy, tq, decline, task_done_workers,
                 waiting_finished_worker, m_is_waiting, destructing, lok, task,
                 spin_count, pendingNotify>>
  /\ UNCHANGED <<waitVars, nsub, members, finished, popsAfter, initial, kminus,
                 taskHist, wksArg, tracing, wsVars, delThrows,
                 dtor_pc>>

\* Line 147: del_worker.  When the branch has no worker left it throws; the
\* catch of line 161 ends the pass without the wait and without the callback.
SupDel ==
  /\ sup_pc = "del"
  /\ lok = 0
  /\ tickDels' = tickDels + 1
  /\ IF workers = {}
       THEN /\ sup_pc' = "head"
            /\ UNCHANGED <<decline, kminus, pc>>
       ELSE /\ Decline
            /\ sup_pc' = "sleep"
  /\ UNCHANGED <<wmin, wmax, workNums, taskNums, toAdd, zeroTicks, ctlVars,
                 tickAdds>>
  /\ UNCHANGED <<wait_strategy, workers, tq, task_done_workers,
                 waiting_finished_worker, m_is_waiting, destructing, lok, task,
                 spin_count, nextId, pendingNotify>>
  /\ UNCHANGED <<waitVars, nsub, members, finished, popsAfter, initial, kplus,
                 taskHist, wksArg, tracing, wsVars, delThrows,
                 dtor_pc>>

\* Lines 153-155, still under m_SupLock: unless m_stopping is set, release
\* the lock and wait on m_thrdCv for the m_tout read at this moment.
SupSleep ==
  /\ sup_pc = "sleep"
  /\ IF m_stopping
       THEN /\ sup_pc' = "cb"
            /\ stopSeen' = TRUE
            /\ UNCHANGED wait_t
       ELSE /\ sup_pc' = "wait"
            /\ wait_t' = m_tout
            /\ UNCHANGED stopSeen
  /\ UNCHANGED <<wmin, wmax, workNums, taskNums, toAdd, zeroTicks, tickVars>>
  /\ UNCHANGED <<m_stopping, m_tout, m_tval, sdtor_pc, dtorFound, preSuspend,
                 ctlHist>>
  /\ UNCHANGED <<branchVars, waitVars, histVars, dtor_pc>>

\* What a step of the loop's wait or callback leaves alone.
supFrame == <<wmin, wmax, workNums, taskNums, toAdd, zeroTicks, ctlVars,
              tickVars, branchVars, waitVars, histVars, dtor_pc>>

\* Line 154: the wait_for times out.  A wait of suspend's default duration,
\* the largest unsigned int of milliseconds, is taken never to time out.
SupTimeout ==
  /\ sup_pc = "wait"
  /\ wait_t # Infinite
  /\ sup_pc' = "cb"
  /\ UNCHANGED supFrame

\* Line 154: a spurious wake-up ends the wait_for, which has no predicate.
SupSpurious ==
  /\ sup_pc = "wait"
  /\ sup_pc' = "cb"
  /\ UNCHANGED supFrame

\* Line 159: the tick callback, outside the lock; then the loop's head.
SupCb ==
  /\ sup_pc = "cb"
  /\ sup_pc' = "head"
  /\ UNCHANGED supFrame

\* One step of the loop thread other than a spurious wake-up.
SupLoop ==
  \/ SupHead \/ SupReadWorkers \/ SupReadTasks \/ SupDel
  \/ SupSleep \/ SupTimeout \/ SupCb

\* ------------------------------------------- the supervisor's clients
\* What a call on the supervisor leaves alone besides what it names.
ctlFrame == <<wmin, wmax, workNums, taskNums, toAdd, zeroTicks, tickVars,
              branchVars, waitVars, histVars, dtor_pc>>

\* The arguments suspend is called with: its default, and a short pause.
SuspendArgs == {-1, 1}

\* suspend(t) (lines 88-91): m_tout = t under m_SupLock, without a notify.
Suspend(t) ==
  /\ sup_pc # "off" /\ sdtor_pc = "idle"
  /\ SupLockFree
  /\ m_tout' = ToUnsigned(t)
  /\ preSuspend' = m_tout
  /\ ctlHist' = IF ToUnsigned(t) = Infinite THEN "suspended" ELSE "paused"
  /\ UNCHANGED <<sup_pc, m_stopping, m_tval, wait_t, sdtor_pc, stopSeen,
                 dtorFound>>
  /\ UNCHANGED ctlFrame

\* Mutant of ProceedPeriod: proceed leaves the period as it is.
ProceedKeepsPeriod == m_tout

\* Line 99: the period proceed() sets, `m_tout = m_tval`.
ProceedPeriod == m_tval

\* proceed() (lines 96-102): restore the period under m_SupLock, then
\* notify_one.
Proceed ==
  /\ sup_pc # "off" /\ sdtor_pc = "idle"
  /\ SupLockFree
  /\ m_tout' = ProceedPeriod
  /\ sup_pc' = WakeLoop(sup_pc)
  /\ ctlHist' = IF ctlHist = "suspended" THEN "restored" ELSE "none"
  /\ UNCHANGED <<m_stopping, m_tval, wait_t, sdtor_pc, stopSeen, dtorFound,
                 preSuspend>>
  /\ UNCHANGED ctlFrame

\* ~supervisor (lines 66-71): under m_SupLock set m_stopping and notify_one.
SupDtorBegin ==
  /\ sup_pc # "off" /\ sdtor_pc = "idle"
  /\ SupLockFree
  /\ m_stopping' = TRUE
  /\ sup_pc' = WakeLoop(sup_pc)
  /\ sdtor_pc' = "join"
  /\ dtorFound' = IF sup_pc = "wait" /\ wait_t = Infinite THEN "parked"
                                                          ELSE sup_pc
  /\ UNCHANGED <<m_tout, m_tval, wait_t, stopSeen, preSuspend, ctlHist>>
  /\ UNCHANGED ctlFrame

\* ~autoThread<join> of m_worker (autothread.h lines 28-32): join returns
\* when mission() has returned.
SupDtorJoin ==
  /\ sdtor_pc = "join"
  /\ sup_pc = "exited"
  /\ sdtor_pc' = "done"
  /\ UNCHANGED <<sup_pc, m_stopping, m_tout, m_tval, wait_t, stopSeen,
                 dtorFound, preSuspend, ctlHist>>
  /\ UNCHANGED ctlFrame

\* supervisor(wmin, wmax) whose loop has started, attached to a branch of
\* wmin..wmax workers and one of the given strategies.
SupInitFor(strategySet) ==
  /\ wmin \in 0..1
  /\ wmax \in (wmin + 1)..MaxThreads
  /\ BranchInit(wmin..wmax, strategySet)
  /\ sup_pc = "head"
  /\ SupCtor
  /\ WsCtor
  /\ tracing = FALSE

SupInit == SupInitFor({"lowlatancy", "blocking"})

\* -------------------------------------------------------------- workspace
\* A workspace owns a list of branches.  Of a branch it uses num_tasks()
\* and submit() only, so that a branch is here the length of its queue; the
\* workers of the branches run beside the workspace's single client thread
\* and pop tasks at any moment.
wsOthers == <<branchVars, waitVars, dtor_pc, supVars, zeroTicks, ctlVars,
              tickVars, nsub, members, finished, popsAfter, initial, kplus,
              kminus, taskHist, tracing, wksArg, delThrows>>

Elems(l) == {l[i] : i \in 1..Len(l)}

\* m_branchList.begin(): the first node, or end() in an empty list.
Begin(l) == IF l = <<>> THEN End ELSE l[1]

\* Mutant of Find: detach takes the head of the list, whatever the handle.
FindHead(l, p) == IF l = <<>> THEN 0 ELSE 1

\* detach's loop (lines 146-147): the position of the first element whose
\* pointer is the handle's, or 0 when the loop ends without a match.
Find(l, p) ==
  IF \E i \in 1..Len(l) : l[i] = p
    THEN CHOOSE i \in 1..Len(l) : l[i] = p /\ \A j \in 1..(i - 1) : l[j] # p
    ELSE 0

\* m_branchList.erase(it) for the iterator at position i.
Erase(l, i) == SubSeq(l, 1, i - 1) \o SubSeq(l, i + 1, Len(l))

\* Mutant of Forward: the cursor is not advanced.
ForwardStays(l, c) == c

\* forward (lines 295-298): ++this_pos, and begin() when that is end().  The
\* callers pass a cursor that points into l.
Forward(l, c) ==
  LET i == Find(l, c)
  IN IF i = 0 \/ i = Len(l) THEN Begin(l) ELSE l[i + 1]

\* Lines 152-165, for l the list after the erase of position i: next_it is
\* the element that followed the erased one, now at position i, or end().
CurAfterErase(l, i) ==
  IF l = <<>> THEN End
  ELSE IF i > Len(l) THEN Begin(l)
  ELSE l[i]

\* Mutant of PreferNext: a tie goes to the next branch.
PreferNextOnTie(nNext, nThis) == nNext <= nThis

\* Line 236: `next_br->num_tasks() < this_br->num_tasks()`.
PreferNext(nNext, nThis) == nNext < nThis

\* attach(workbranch*) (lines 127-132) of a branch the workspace does not
\* own yet.
Attach(b) ==
  /\ ws_pc = "idle"
  /\ b \notin Elems(m_branchList)
  /\ m_branchList' = Append(m_branchList, b)
  /\ cur' = Begin(m_branchList')
  /\ wsPrev' = wsLast
  /\ wsLast' = [op |-> "attach", arg |-> b]
  /\ preList' = m_branchList /\ preCur' = cur /\ preAttach' = m_branchList
  /\ firsts' = <<>>
  /\ UNCHANGED <<ntasks, ws_pc, this_br, next_br, numThis, numNext, detachRes,
                 placed>>
  /\ UNCHANGED wsOthers

\* detach(bid) (lines 145-171), for the handle of any branch, owned or not.
Detach(b) ==
  /\ ws_pc = "idle"
  /\ LET i == Find(m_branchList, b)
     IN IF i = 0
          THEN /\ detachRes' = 0
               /\ UNCHANGED <<m_branchList, cur>>
          ELSE /\ detachRes' = m_branchList[i]
               /\ m_branchList' = Erase(m_branchList, i)
               /\ cur' = CurAfterErase(m_branchList', i)
  /\ wsPrev' = wsLast
  /\ wsLast' = [op |-> "detach", arg |-> b]
  /\ preList' = m_branchList /\ preCur' = cur
  /\ firsts' = <<>>
  /\ UNCHANGED <<ntasks, ws_pc, this_br, next_br, numThis, numNext, preAttach,
                 placed>>
  /\ UNCHANGED wsOthers

\* What a step of submit leaves alone besides what it names.
submitFrame == <<m_branchList, wsPrev, preAttach, detachRes, wsOthers>>

\* submit, lines 229-233: this_br = cur->get(), then forward(cur) and
\* next_br.  The assert of line 229 lets no submit through on an empty list.
WsBegin ==
  /\ ws_pc = "idle"
  /\ m_branchList # <<>>
  /\ \A b \in Elems(m_branchList) : ntasks[b] < MaxTasks
  /\ this_br' = cur
  /\ cur' = Forward(m_branchList, cur)
  /\ next_br' = cur'
  /\ numThis' = Unread /\ numNext' = Unread
  /\ ws_pc' = "cmp"
  /\ preList' = m_branchList /\ preCur' = cur
  /\ firsts' = LET f == Append(firsts, cur)
               IN IF Len(f) > Len(m_branchList) THEN Tail(f) ELSE f
  /\ UNCHANGED <<ntasks, wsLast, placed>>
  /\ UNCHANGED submitFrame

\* Line 236, one operand: this_br->num_tasks().  The two operands of `<` are
\* evaluated in either order.
WsReadThis ==
  /\ ws_pc = "cmp"
  /\ numThis = Unread
  /\ numThis' = ntasks[this_br]
  /\ UNCHANGED <<cur, ntasks, ws_pc, this_br, next_br, numNext, wsLast, preList,
                 preCur, placed, firsts>>
  /\ UNCHANGED submitFrame

\* Line 236, the other operand: next_br->num_tasks().
WsReadNext ==
  /\ ws_pc = "cmp"
  /\ numNext = Unread
  /\ numNext' = ntasks[next_br]
  /\ UNCHANGED <<cur, ntasks, ws_pc, this_br, next_br, numThis, wsLast, preList,
                 preCur, placed, firsts>>
  /\ UNCHANGED submitFrame

\* Lines 236-240: the comparison and the submit on the branch it selects.
WsPush ==
  /\ ws_pc = "cmp"
  /\ numThis # Unread /\ numNext # Unread
  /\ placed' = IF PreferNext(numNext, numThis) THEN next_br ELSE this_br
  /\ ntasks' = [ntasks EXCEPT ![placed'] = @ + 1]
  /\ ws_pc' = "idle"
  /\ wsLast' = [op |-> "submit", arg |-> 0]
  /\ wsPrev' = wsLast
  /\ UNCHANGED <<cur, this_br, next_br, numThis, numNext, preList, preCur,
                 firsts>>
  /\ UNCHANGED <<m_branchList, preAttach, detachRes, wsOthers>>

\* A worker of branch b pops a task (taskqueue.h lines 30-38).
WsPop(b) ==
  /\ ntasks[b] > 0
  /\ ntasks' = [ntasks EXCEPT ![b] = @ - 1]
  /\ UNCHANGED <<m_branchList, cur, ws_pc, this_br, next_br, numThis, numNext>>
  /\ UNCHANGED <<wsHist, wsOthers>>

\* ---------------------------------------------------------- specifications
\* Each specification puts the workers against one group of operations.  A
\* group that never sets m_is_waiting leaves out Report and Resume, which
\* need it set; a group that never raises decline leaves out Retire.
TaskShapes == {<<"normal", 1>>, <<"urgent", 1>>} \cup
              {<<"sequence", n>> : n \in 2..MaxSeqLen}

\* The life cycle of a branch: submissions, add_worker, del_worker and the
\* destructor against the workers.
Next ==
  \/ \E w \in Threads : Mission(w) \/ Retire(w)
  \/ \E w \in Threads : SpuriousWake(w)
  \/ Submit("normal", 1)
  \/ SubmitNotify
  \/ AddWorker
  \/ DelWorker
  \/ DtorBegin
  \/ DtorRecheck
  \/ DtorSpurious

Spec == Init /\ [][Next]_vars

\* Every thread that can take a step eventually takes one: each worker is
\* scheduled, a submit reaches its notify_one, a woken destructor runs.
FairSpec ==
  /\ Spec
  /\ \A w \in Threads : WF_vars(Mission(w) \/ Retire(w))
  /\ WF_vars(SubmitNotify)
  /\ WF_vars(DtorRecheck)

\* The quiesce barrier: submissions and wait_tasks against the workers.
NextWait ==
  \/ \E w \in Threads : Mission(w) \/ Quiesce(w)
  \/ \E w \in Threads : SpuriousWake(w)
  \/ Submit("normal", 1)
  \/ SubmitNotify
  \/ \E timed \in BOOLEAN : WaitTasksBegin(timed)
  \/ Phase1Recheck
  \/ Phase1Timeout
  \/ Phase2Notify
  \/ Phase2Check
  \/ WaitSpurious

SpecWait == Init /\ [][NextWait]_vars

\* As FairSpec; a finite timeout expires and the wait_tasks caller runs.
FairWait ==
  /\ SpecWait
  /\ \A w \in Threads : WF_vars(Mission(w) \/ Quiesce(w))
  /\ WF_vars(SubmitNotify)
  /\ WF_vars(Phase1Recheck)
  /\ WF_vars(Phase1Timeout)
  /\ WF_vars(Phase2Notify)
  /\ WF_vars(Phase2Check)

\* Submissions of every class against the workers.
NextSeq ==
  \/ \E w \in Threads : Mission(w)
  \/ \E w \in Threads : SpuriousWake(w)
  \/ \E s \in TaskShapes : Submit(s[1], s[2])
  \/ SubmitNotify

SpecSeq == Init /\ [][NextSeq]_vars

FairSeq ==
  /\ SpecSeq
  /\ \A w \in Threads : WF_vars(Mission(w))
  /\ WF_vars(SubmitNotify)

\* Submissions of every class against the workers, with the task history
\* recorded.
SpecOrder == InitTraced /\ [][NextSeq]_vars

\* Construction with every sign of the argument, then submissions.
SpecCtor == InitCtor /\ [][NextSeq]_vars

\* add_worker and del_worker, also on an emptied branch, against workers
\* that are given no task.
NextErr ==
  \/ \E w \in Threads : Poll(w) \/ Block(w) \/ Retire(w)
  \/ \E w \in Threads : SpuriousWake(w)
  \/ AddWorker
  \/ DelWorker
  \/ DelWorkerThrows

SpecErr == Init /\ [][NextErr]_vars

\* One supervisor scaling one branch that clients only submit to.
NextSup ==
  \/ \E w \in Threads : Mission(w) \/ Retire(w)
  \/ \E w \in Threads : SpuriousWake(w)
  \/ Submit("normal", 1)
  \/ SubmitNotify
  \/ SupLoop
  \/ SupAdd
  \/ SupSpurious

SpecSup == SupInit /\ [][NextSup]_vars

\* suspend, proceed and ~supervisor against the loop, which scales a
\* branch that is given no task.
NextCtl ==
  \/ \E w \in Threads : Poll(w) \/ Retire(w)
  \/ SupLoop
  \/ SupSpurious
  \/ \E t \in SuspendArgs : Suspend(t)
  \/ Proceed
  \/ SupDtorBegin
  \/ SupDtorJoin

SpecCtl == SupInitFor({"lowlatancy"}) /\ [][NextCtl]_vars

\* Every thread that can take a step eventually takes one; no wake-up is
\* owed to chance.
FairCtl ==
  /\ SpecCtl
  /\ \A w \in Threads : WF_vars(Poll(w) \/ Retire(w))
  /\ WF_vars(SupLoop)
  /\ WF_vars(SupDtorJoin)

\* Submissions against the workers of a BLOCKING branch, with the locks of
\* the idle wait taken one by one.
NextLock ==
  \/ \E w \in Threads : Poll(w) \/ Exec(w) \/ BlockByLock(w)
  \/ \E w \in Threads : SpuriousWake(w)
  \/ Submit("normal", 1)
  \/ SubmitNotify

SpecLock == InitLock /\ [][NextLock]_vars

\* wait_tasks without a timeout against add_worker and del_worker, on a
\* branch that is given no task.
NextBar ==
  \/ \E w \in Threads : Poll(w) \/ Quiesce(w) \/ Retire(w)
  \/ WaitTasksBegin(FALSE)
  \/ Phase1Recheck
  \/ Phase2Notify
  \/ Phase2Check
  \/ WaitSpurious
  \/ AddWorker
  \/ DelWorker

SpecBar == InitPolling /\ [][NextBar]_vars

\* Every worker keeps being scheduled and the wait_tasks caller runs when it
\* can; no wake-up is owed to chance.
FairBar ==
  /\ SpecBar
  /\ \A w \in Threads : WF_vars(Poll(w) \/ Quiesce(w) \/ Retire(w))
  /\ WF_vars(Phase1Recheck)
  /\ WF_vars(Phase2Notify)
  /\ WF_vars(Phase2Check)

\* A workspace: attach, detach and submit by its one client thread, against
\* the workers of its branches.
NextWs ==
  \/ \E b \in Branches : Attach(b)
  \/ \E b \in Branches : Detach(b)
  \/ WsBegin
  \/ WsReadThis
  \/ WsReadNext
  \/ WsPush
  \/ \E b \in Branches : WsPop(b)

SpecWs == InitWs /\ [][NextWs]_vars

\* ------------------------------------------------------------------ claims

\* C1: after the destructor has returned, every thread the branch ever
\* spawned (by the constructor or by add_worker) has left its mission loop
\* and the workers map is empty.
C1_NoWorkerOutlivesBranch ==
  dtor_pc = "done" => (workers = {} /\ \A w \in Spawned : pc[w] = "dead")

\* The destructor has returned on a BLOCKING branch that add_worker and
\* del_worker were called on.
C1_Witness ==
  /\ dtor_pc = "done" /\ wait_strategy = "blocking"
  /\ kplus > 0 /\ kminus > 0 /\ Cardinality(Spawned) >= 2

\* C2 (as claimed): when phase 1 of wait_tasks has completed with result
\* true, no task that was queued or running at the call is still queued or
\* running.
C2_TrueMeansDrained ==
  (wt_pc \in {"p1_done", "p2_lock", "p2_wait", "p2_woken"} /\ wt_res)
    => preTasks \cap Pending = {}

\* C3 (as claimed): while m_is_waiting is set, no step takes a task out of
\* the queue.
C3_NoPopWhileWaiting ==
  [][m_is_waiting => Len(tq') >= Len(tq)]_vars

InPark(p) == p \in {"parked", "resume"}

\* C3 (amended): a worker that has reported idle stays in its wait on
\* thread_cv, and so pops nothing, for as long as m_is_waiting is set: it
\* leaves the wait only in a step that finds the flag cleared.
C3_ParkedUntilCleared ==
  [][\A w \in Threads :
       (InPark(pc[w]) /\ ~InPark(pc'[w])) => ~m_is_waiting]_vars

\* A task submitted during phase 1 sits in the queue while a worker that
\* has reported idle is parked.
C3_Witness ==
  /\ m_is_waiting /\ wt_pc = "p1_wait"
  /\ \E w \in Threads : pc[w] = "parked"
  /\ \E i \in 1..Len(tq) : tq[i].id \notin preTasks

\* C7 (as claimed): once the destructor has done step 1 no worker pops a
\* task, and a worker retires only with no task in hand.
C7_NoPopAfterStep1 ==
  \A w \in Threads : popsAfter[w] = 0 /\ (pc[w] = "dead" => task[w] = NoTask)

\* C7 (amended): after step 1 a worker pops at most one more task, and only
\* a worker about to pop that has not popped since step 1 can do so; a
\* worker retires only with no task in hand.
C7_AtMostOnePopAfterStep1 ==
  \A w \in Threads :
    /\ popsAfter[w] <= 1
    /\ (destructing /\ pc[w] = "pop") => popsAfter[w] = 0
    /\ pc[w] = "dead" => task[w] = NoTask

\* The destructor has returned, a worker popped and ran a task after step 1,
\* and another task was dropped in the queue.
C7_Witness ==
  /\ dtor_pc = "done" /\ Len(tq) > 0
  /\ \E w \in Threads : popsAfter[w] = 1 /\ pc[w] = "dead"

\* C9: on a branch that is not being destructed, whenever every retirement
\* request has been served (decline = 0) the workers map holds
\* initial + k_plus - k_minus workers.
C9_WorkerCount ==
  (~destructing /\ decline = 0)
    => Cardinality(workers) = initial + kplus - kminus

\* Both operations were called and the request was served.
C9_Witness ==
  ~destructing /\ decline = 0 /\ kplus > 0 /\ kminus > 0

\* C10 (as claimed): a task that has ended has invoked all of its members,
\* whether or not one of them threw.
C10_GroupRunsAllMembers ==
  \A t \in TaskIds : finished[t] # -1 => finished[t] = members[t]

\* C6 (as claimed): once num_tasks = 0 has been seen by two scaling passes
\* in a row, with no submission since, wmin <= num_workers <= wmax.
C6_WithinBounds ==
  zeroTicks >= 2
    => (wmin <= Cardinality(workers) /\ Cardinality(workers) <= wmax)

\* A wait_tasks call with a finite timeout, made while a worker was
\* executing a task, has not returned yet.
TimedWaitOnBusyBranch == wt_pc # "idle" /\ wt_timed /\ wt_busy

\* C4 (as claimed): wait_tasks(0) called while a worker is executing a task
\* returns, and phase 1 ends with false when a worker is still executing a
\* task it held at the call.
C4_TimedWaitReturnsFalse ==
  /\ TimedWaitOnBusyBranch ~> (wt_pc = "idle")
  /\ [][(/\ wt_timed /\ wt_pc # "p1_done" /\ wt_pc' = "p1_done"
         /\ \E w \in Threads : pc[w] = "exec" /\ task[w].id \in preTasks)
        => ~wt_res']_vars

\* C5: once the destructor has begun it returns, under each wait strategy,
\* given that every worker keeps being scheduled and every task it runs
\* terminates.
C5_DtorReturns == (dtor_pc # "idle") ~> (dtor_pc = "done")

\* The destructor has returned although it had to wait for workers, one of
\* them busy with a task popped after step 1.
C5_Witness ==
  /\ dtor_pc = "done" /\ Cardinality(Spawned) >= 2
  /\ \E w \in Threads : popsAfter[w] > 0

\* C8 (as claimed): on a BLOCKING branch that sees neither a retirement
\* request nor a quiesce nor its destructor, every queued task is eventually
\* popped and executed.
C8_QueuedTaskIsExecuted ==
  \A t \in TaskIds :
    (wait_strategy = "blocking" /\ t \in QueuedIds) ~> (finished[t] # -1)

\* The tasks popped so far.
Popped == {started[i] : i \in 1..Len(started)}

\* Task a was popped before task b.
Before(a, b) ==
  \E i, j \in 1..Len(started) : i < j /\ started[i] = a /\ started[j] = b

\* The classes pushed at the tail of the queue.
TailClass(t) == classOf[t] \in {"normal", "sequence"}

\* C11: on a branch with exactly one worker, tasks pushed at the tail
\* (NORMAL ones in particular) are executed in the order of their
\* submission: of two such tasks the later is popped only after the earlier,
\* and a task is popped only when every task popped before it has ended.
C11_NormalFifo ==
  initial = 1 =>
    /\ \A a, b \in Popped :
         (TailClass(a) /\ TailClass(b) /\ a < b) => Before(a, b)
    /\ \A a \in 1..nsub, b \in Popped :
         (TailClass(a) /\ TailClass(b) /\ a < b) => a \in Popped
    /\ \A i \in 1..(Len(started) - 1) : finished[started[i]] # -1

\* One worker has executed two NORMAL tasks.
C11_Witness ==
  /\ initial = 1
  /\ \E a, b \in Popped :
       /\ a < b /\ classOf[a] = "normal" /\ classOf[b] = "normal"
       /\ finished[a] # -1 /\ finished[b] # -1

\* C12: an URGENT task is popped before every NORMAL task that was in the
\* queue when it was pushed, and a task a worker has popped stays with that
\* worker until it has ended, whatever is submitted meanwhile.
C12_UrgentFirst ==
  /\ [](\A u \in 1..nsub : \A n \in behind[u] :
          (classOf[u] = "urgent" /\ classOf[n] = "normal" /\ n \in Popped)
            => Before(u, n))
  /\ [][\A w \in Threads :
          task[w] # NoTask =>
            \/ task'[w].id = task[w].id
            \/ task'[w] = NoTask /\ finished'[task[w].id] # -1]_vars

\* An URGENT task overtook a queued NORMAL task, which then ran too.
C12_Witness ==
  \E u, n \in 1..nsub :
    /\ classOf[u] = "urgent" /\ classOf[n] = "normal" /\ n \in behind[u]
    /\ Before(u, n) /\ finished[n] # -1

\* C13: a task is popped at most once, a popped task is no longer in the
\* queue, no two workers hold the same task, and a task that has ended is
\* neither queued nor running.
C13_AtMostOnce ==
  /\ \A i, j \in 1..Len(started) : started[i] = started[j] => i = j
  /\ Popped \cap QueuedIds = {}
  /\ \A v, w \in Threads :
       (v # w /\ task[v] # NoTask) => task[v].id # task[w].id
  /\ \A t \in TaskIds : finished[t] # -1 => t \notin Pending

\* Two workers are executing at the same time.
C13_Witness ==
  \E v, w \in Threads : v # w /\ pc[v] = "exec" /\ pc[w] = "exec"

\* C14: a del_worker call that throws changes nothing of the branch.
C14_EmptyDelKeepsState ==
  [][delThrows' # delThrows => UNCHANGED branchVars]_vars

\* del_worker has thrown on a branch emptied by an earlier del_worker.
C14_Witness == delThrows > 0 /\ kminus > 0 /\ workers = {}

\* C15: the step in which a callable throws leaves the worker in its loop
\* and in the workers map, and the map as large as it was.
C15_WorkerSurvivesThrow ==
  [][\A w \in Threads :
       (pc[w] = "exec" /\ task[w].id \in threw' /\ task'[w] = NoTask)
         => (pc'[w] = "top" /\ w \in workers' /\ workers' = workers)]_vars

\* A worker whose task threw has since popped and executed another task.
C15_Witness ==
  \E a, b \in Popped :
    /\ a \in threw /\ runner[a] = runner[b] /\ Before(a, b)
    /\ finished[b] # -1

\* C16: the branch has max(wks, 1) workers: wks of them when wks >= 1 and
\* exactly one otherwise.
C16_CtorCount ==
  Cardinality(workers) = (IF wksArg >= 1 THEN wksArg ELSE 1)

\* A branch constructed with a negative argument has executed a task.
C16_Witness ==
  wksArg < 0 /\ Cardinality(workers) = 1 /\ \E t \in TaskIds : finished[t] # -1

\* The positions of the loop at which workNums, taskNums and the tick's
\* counts all belong to the same, finished scaling pass.
PassDone == sup_pc \in {"sleep", "wait", "cb", "head", "loop", "exited"}

\* C17: a scaling pass that saw tasks > 0 has called add_worker exactly
\* min(wmax - workers, max(0, tasks - workers)) times, for the workers and
\* tasks it read, and the branch never has more than wmax workers.
C17_ScaleUpCount ==
  /\ (PassDone /\ taskNums > 0)
       => tickAdds = Min(wmax - workNums, Max(0, taskNums - workNums))
  /\ Cardinality(workers) <= wmax

\* A pass has added a worker to a branch with a backlog.
C17_Witness ==
  sup_pc = "wait" /\ tickAdds > 0 /\ taskNums > workNums

C19_SupDtorReturns ==
  /\ (sdtor_pc # "idle") ~> (sdtor_pc = "done")
  /\ [](sdtor_pc = "done" => sup_pc = "exited")
  /\ [](stopSeen => sup_pc \in {"cb", "head", "exited"})

\* ~supervisor has returned after finding the loop parked in the wait of a
\* suspend().
C19_Witness == sdtor_pc = "done" /\ dtorFound = "parked"

\* C20 (as claimed): after suspend() and then proceed(), m_tout is what it
\* was before that suspend call.
C20_RestoresPreSuspend == ctlHist = "restored" => m_tout = preSuspend

\* C20 (amended): after suspend() and then proceed(), m_tout is the period
\* the supervisor was constructed with.
C20_RestoresDefault == ctlHist = "restored" => m_tout = m_tval

\* suspend(); proceed() was called on a supervisor whose period an earlier
\* suspend(t) had changed.
C20_Witness ==
  ctlHist = "restored" /\ preSuspend # m_tval /\ preSuspend # Infinite

\* The branch after b in list l, the first one after the last.
Succ(l, b) == LET i == Find(l, b) IN l[(i % Len(l)) + 1]

\* The last workspace call was a submit, and it has returned.
Submitted == ws_pc = "idle" /\ wsLast.op = "submit"

\* C21: a submit takes A at the cursor and B one position on, wrapping;
\* it enqueues on B when the num_tasks() it read of B is below the one it
\* read of A and on A otherwise, a tie included; the step that enqueues
\* lengthens the queue of that one branch by one and no other queue.
C21_TwoChoice ==
  /\ [](Submitted =>
          /\ this_br = preCur /\ this_br \in Elems(m_branchList)
          /\ next_br = Succ(m_branchList, this_br)
          /\ placed = (IF numNext < numThis THEN next_br ELSE this_br))
  /\ [][(ws_pc = "cmp" /\ ws_pc' = "idle") =>
          \E b \in Elems(m_branchList) :
            b = placed' /\ ntasks' = [ntasks EXCEPT ![b] = @ + 1]]_vars

\* A submit found two different branches with equally long queues and
\* enqueued on the first.
C21_Witness ==
  /\ Submitted /\ this_br # next_br
  /\ numThis = numNext /\ numThis > 0 /\ placed = this_br

\* C22 (as claimed): the cursor is end() exactly when the list is empty, and
\* otherwise it points at a branch in the list.
C22_CursorValid ==
  /\ (cur = End) <=> (m_branchList = <<>>)
  /\ m_branchList # <<>> => cur \in Elems(m_branchList)

\* The last two calls were attach(b) and detach of the handle it returned.
RoundTrip ==
  /\ wsLast.op = "detach" /\ wsPrev.op = "attach"
  /\ wsPrev.arg = wsLast.arg

\* C23: attach(b) followed at once by detach of its handle returns b and
\* leaves the workspace owning what it owned before the attach: as many
\* branches, and the same ones.
C23_AttachDetachRoundTrip ==
  RoundTrip =>
    /\ detachRes = wsLast.arg
    /\ Len(m_branchList) = Len(preAttach)
    /\ Elems(m_branchList) = Elems(preAttach)

\* The round trip was made on a workspace that owned two other branches.
C23_Witness == RoundTrip /\ Len(preAttach) = 2

\* C24 (as claimed): a detach that removes the branch under the cursor
\* moves the cursor to the next branch (the first after the last, end() when
\* the list becomes empty); a detach that removes another branch leaves the
\* cursor on the branch it was on.
C24_CursorMovesOnlyIfCurrent ==
  (ws_pc = "idle" /\ wsLast.op = "detach" /\ detachRes # 0) =>
    IF wsLast.arg = preCur
      THEN cur = (IF m_branchList = <<>> THEN End
                  ELSE IF Succ(preList, preCur) = preList[1]
                         THEN m_branchList[1]
                         ELSE Succ(preList, preCur))
      ELSE cur = preCur

\* C29: while no branch is attached or detached a submit moves the cursor
\* to the next branch of the list, the first after the last, and takes as
\* its first choice the branch the cursor was on; the first choices of up to
\* |list| consecutive submits are pairwise different branches of the list,
\* so each branch is the first choice once in |list| of them.
C29_RoundRobin ==
  /\ [](/\ Cardinality(Elems(firsts)) = Len(firsts)
        /\ Elems(firsts) \subseteq Elems(m_branchList))
  /\ [][(ws_pc = "idle" /\ ws_pc' = "cmp") =>
          /\ this_br' = cur
          /\ cur' = Succ(m_branchList, cur)
          /\ firsts'[Len(firsts')] = cur]_vars

\* More than |list| submits in a row on a workspace of three branches.
C29_Witness ==
  /\ ws_pc = "idle" /\ Len(m_branchList) = MaxBranches
  /\ Len(firsts) = MaxBranches /\ firsts[1] # m_branchList[1]

\* C25 (as claimed): no thread holds the branch mutex lok and the queue's
\* mutex tqLock at the same time, so neither is ever acquired while the
\* other is held.
C25_LocksNeverNested ==
  \A w \in Threads : ~(lok = w /\ TqLockedBy(w))

\* The workers that have retired.
Retired == {w \in Threads : pc[w] = "dead"}

\* Worker w leaves its loop in this step.
Exits(w) == pc[w] # "dead" /\ pc'[w] = "dead"

\* C26: every retirement is one request served: a worker exits only in a
\* step that takes lok, finds decline > 0 and lowers it by exactly one, and
\* no second worker exits in that step.  Until the destructor begins, the
\* workers retired plus the requests outstanding are the del_worker calls
\* made; from then on the requests outstanding are the workers left, all of
\* which the destructor asked to retire.
C26_RequestsServedOnce ==
  /\ [](~destructing => Cardinality(Retired) + decline = kminus)
  /\ [](destructing => decline = Cardinality(workers))
  /\ [][\A w \in Threads :
          Exits(w) =>
            /\ lok = 0 /\ decline > 0 /\ decline' = decline - 1
            /\ \A v \in Threads \ {w} : ~Exits(v)]_vars

\* Two workers read decline > 0 for one request: one has retired, and the
\* other is about to find the request served.
C26_Witness ==
  /\ ~destructing /\ kminus = 1 /\ decline = 0
  /\ \E v, w \in Threads : pc[v] = "dead" /\ pc[w] = "retire"

\* C27: the key set of the workers map is the set of the threads spawned
\* and not retired; a worker leaves the map, and its loop, only by erasing
\* itself in answer to a retirement request.
C27_MapIsAliveSet ==
  /\ [](workers = Alive)
  /\ [][\A w \in Threads :
          (Exits(w) \/ (w \in workers /\ w \notin workers')) =>
            /\ pc[w] = "retire" /\ decline > 0
            /\ Exits(w) /\ workers' = workers \ {w}]_vars

\* A worker that add_worker spawned has run a task, and another worker has
\* retired.
C27_Witness ==
  /\ kplus > 0 /\ workers # {} /\ Retired # {}
  /\ \E t \in TaskIds : finished[t] # -1

\* Some worker has read decline > 0 at line 317.
RequestObserved == \E v \in Threads : pc[v] = "retire"

\* Worker w takes a task out of the queue in this step.
Pops(w) == pc[w] = "pop" /\ pc'[w] = "exec"

\* C28 (as claimed): while a retirement request is outstanding and a worker
\* has observed it, no worker pops a task.
C28_NoPopWhileRequested ==
  [][(decline > 0 /\ RequestObserved) => \A w \in Threads : ~Pops(w)]_vars

\* C28 (amended): a worker goes on to try_pop only from a read of
\* decline that returned 0, it starts a task only from that try_pop, and a
\* read that returns decline > 0 sends it to the retirement branch.
C28_PopOnlyAfterReadingZero ==
  [][\A w \in Threads :
       /\ (pc[w] # "pop" /\ pc'[w] = "pop") => (pc[w] = "top" /\ decline = 0)
       /\ (pc[w] # "exec" /\ pc'[w] = "exec") => Pops(w)
       /\ (pc[w] = "top" /\ decline > 0 /\ pc'[w] # "top")
            => pc'[w] = "chk2"]_vars

\* A worker is running a task it popped after the destructor's requests
\* were issued, while another worker has observed them.
C28_Witness ==
  /\ decline > 0 /\ RequestObserved
  /\ \E w \in Threads : pc[w] = "exec" /\ popsAfter[w] = 1

\* C30 (as claimed): a wait_tasks call without a timeout returns, also
\* when add_worker or del_worker run during either of its phases.
C30_WaitTasksReturns == (wt_pc # "idle") ~> (wt_pc = "idle")

\* C31 (as claimed): whenever no wait_tasks call is in progress the barrier
\* is at rest: m_is_waiting is false and both of its counters are 0.
C31_BarrierAtRest ==
  wt_pc = "idle" =>
    /\ ~m_is_waiting
    /\ task_done_workers = 0
    /\ waiting_finished_worker = 0

\* C32 (as claimed): on a branch that is not being destructed the
\* outstanding retirement requests never exceed the workers.
C32_RequestsWithinWorkers ==
  ~destructing => decline <= Cardinality(workers)

\* C32 (amended): on a branch that is not being destructed only one step
\* takes decline from at most |workers| to more than |workers|: a
\* del_worker call that does not throw, made on a branch that has workers
\* when each of them already has a request outstanding; it raises decline by
\* one and leaves the map alone.  add_worker and every retirement keep the
\* bound.
C32_OnlyOverRequestBreaksBound ==
  [][(/\ ~destructing'
      /\ decline <= Cardinality(workers)
      /\ decline' > Cardinality(workers'))
       => (/\ kminus' = kminus + 1
           /\ workers # {} /\ decline = Cardinality(workers)
           /\ decline' = decline + 1 /\ workers' = workers)]_vars

\* Two del_worker calls were made on a branch of one worker and the worker
\* has served one of them: a request is outstanding on a branch without
\* workers, before any add_worker call.
C32_Witness ==
  /\ ~destructing /\ initial = 1 /\ kminus = 2 /\ kplus = 0
  /\ workers = {} /\ decline = 1

====
